---- MODULE Spec2Model ----
(***************************************************************************)
(* coc-agent: the AI completion client (src/src/ai-client.ts, with the     *)
(* shipped build lib/index.js) and the extension that holds it             *)
(* (src/src/index.ts) as a state machine.  Three layers, each with its own *)
(* specification: the client and its calls (Spec, SpecCalls), prompt       *)
(* building and response parsing on their own (SpecPure), and the          *)
(* extension's commands and completion source (SpecEditor); the abstract   *)
(* base class is run on its own in SpecBase.                               *)
(*                                                                         *)
(* JavaScript values are tagged records, so that undefined, null, "", 0    *)
(* and a missing property stay distinct and truthiness is computed the way *)
(* the language computes it.  Text is a sequence of tokens: one-character  *)
(* strings, plus the literal labels the code emits as single tokens.       *)
(* Temperatures are in tenths (0.3 is 3, 1.0 is 10).                       *)
(*                                                                         *)
(* BaseAIClient (ai-client.ts:160-250) is abstract and no class of the     *)
(* source extends it: ClaudeClient (252) and OpenAIClient (365) are        *)
(* standalone classes and are what createAIClient constructs.  Its         *)
(* validators and its error mapper are modelled as operators; no action    *)
(* of the concrete clients calls them, only the actions of SpecBase do.    *)
(***************************************************************************)
EXTENDS Integers, Sequences, FiniteSets, TLC

VARIABLES client, created, calls, wire,
          pin, pout,
          settings, aiClient, cmds, comps, lastInit

clientVars == <<client, created, calls, wire>>
pureVars == <<pin, pout>>
editorVars == <<settings, aiClient, cmds, comps, lastInit>>
vars == <<clientVars, pureVars, editorVars>>

-----------------------------------------------------------------------------
(* JavaScript values *)

Undef == [t |-> "undefined"]

Null == [t |-> "null"]

Num(n) == [t |-> "number", v |-> n]

Str(s) == [t |-> "string", v |-> s]

Arr(a) == [t |-> "array", v |-> a]

Bool(b) == [t |-> "boolean", v |-> b]

Obj(f) == [t |-> "object", v |-> f]

\* ToBoolean: undefined, null, false, 0 and "" are falsy, everything else
\* truthy.
Truthy(x) ==
  CASE x.t = "undefined" -> FALSE
    [] x.t = "null" -> FALSE
    [] x.t = "number" -> x.v # 0
    [] x.t = "string" -> x.v # <<>>
    [] x.t = "boolean" -> x.v
    [] OTHER -> TRUE

\* a || b
OrElse(a, b) == IF Truthy(a) THEN a ELSE b

\* x.k for an object x; a missing property reads as undefined.
Prop(x, k) == IF x.t = "object" /\ k \in DOMAIN x.v THEN x.v[k] ELSE Undef

\* Reading a property of undefined or null throws a TypeError.
CanRead(x) == x.t \notin {"undefined", "null"}

-----------------------------------------------------------------------------
(* Text *)

NL == "\n"

IsSpace(ch) == ch \in {" ", NL, "\t"}

RECURSIVE trimStart(_)
trimStart(s) ==
  IF s = <<>> THEN <<>>
  ELSE IF IsSpace(Head(s)) THEN trimStart(Tail(s)) ELSE s

RECURSIVE trimEnd(_)
trimEnd(s) ==
  IF s = <<>> THEN <<>>
  ELSE IF IsSpace(s[Len(s)]) THEN trimEnd(SubSeq(s, 1, Len(s) - 1)) ELSE s

\* String.prototype.trim
trim(s) == trimEnd(trimStart(s))

-----------------------------------------------------------------------------
(* Errors *)

\* new Error(message), new TypeError(message), ...: an error object without
\* provider, statusCode or originalError properties.
PlainError(name, message) ==
  [name |-> name, message |-> message, provider |-> Undef,
   statusCode |-> Undef, originalError |-> Undef]

AIClientError(message, provider, statusCode, originalError) ==
  [name |-> "AIClientError", message |-> message, provider |-> provider,
   statusCode |-> statusCode, originalError |-> originalError]

NoError == [name |-> "none"]

\* error.message.includes('fetch'): the message fetch() rejects with.
FetchFailed == <<"fetch failed">>

-----------------------------------------------------------------------------
(* Defaults: the literals of the concrete constructors, equal to            *)
(* AI_PROVIDER_DEFAULTS.                                                    *)

DefaultMaxTokens == 100

DefaultTemperature == 3

DefaultMaxSuggestions == 3

OpenAIBaseURL == Str(<<"https://api.openai.com/v1">>)

OpenAIModel == Str(<<"gpt-3.5-turbo">>)

LegacyModel == Str(<<"text-davinci-003">>)

ClaudeBaseURL == Str(<<"https://api.anthropic.com">>)

ClaudeModel == Str(<<"claude-3-haiku-20240307">>)

\* VALIDATION_CONSTRAINTS.TEMPERATURE, in tenths
TemperatureMin == 0

TemperatureMax == 10

-----------------------------------------------------------------------------
(* BaseAIClient's validators and error mapper (abstract class, never       *)
(* instantiated).  Each validator returns the error it throws, or NoError. *)

\* `provider` is this.provider at the time of the call: the base constructor
\* calls validateConfig before it assigns this.provider.
validateConfig(config, provider) ==
  IF ~Truthy(config.apiKey) \/ config.apiKey.t # "string"
     \/ trim(config.apiKey.v) = <<>>
  THEN AIClientError(<<"API key is required and must be a non-empty string">>,
                     provider, Undef, Undef)
  ELSE IF config.temperature # Undef
          /\ (config.temperature.v < TemperatureMin
              \/ config.temperature.v > TemperatureMax)
  THEN AIClientError(<<"Temperature must be between 0.0 and 1.0">>,
                     provider, Undef, Undef)
  ELSE IF config.maxTokens # Undef /\ config.maxTokens.v <= 0
  THEN AIClientError(<<"Max tokens must be a positive number">>,
                     provider, Undef, Undef)
  ELSE NoError

validateRequest(request, provider) ==
  IF ~Truthy(request.prompt) \/ request.prompt.t # "string"
     \/ trim(request.prompt.v) = <<>>
  THEN AIClientError(<<"Prompt is required and must be a non-empty string">>,
                     provider, Undef, Undef)
  ELSE IF request.maxSuggestions # Undef /\ request.maxSuggestions.v <= 0
  THEN AIClientError(<<"Max suggestions must be a positive number">>,
                     provider, Undef, Undef)
  ELSE NoError

handleError(error, provider) ==
  IF error.name = "AIClientError" THEN error
  ELSE IF error.name = "TypeError" /\ error.message = FetchFailed
  THEN AIClientError(<<"Network error: Unable to connect to AI service">>,
                     provider, Undef, error)
  ELSE AIClientError(<<"Unexpected error: ", error.message>>,
                     provider, Undef, error)

-----------------------------------------------------------------------------
(* Construction *)

\* new ClaudeClient(config): fills the held config, validates nothing.
ClaudeClient(config) ==
  [class |-> "ClaudeClient", build |-> "src",
   config |-> [apiKey |-> config.apiKey,
               baseURL |-> OrElse(config.baseURL, ClaudeBaseURL),
               model |-> OrElse(config.model, ClaudeModel),
               maxTokens |-> OrElse(config.maxTokens, Num(DefaultMaxTokens)),
               temperature |-> OrElse(config.temperature, Num(DefaultTemperature))]]

\* new OpenAIClient(config): the same code in src/src/ai-client.ts and in
\* lib/index.js; `build` records which of the two files the object is of.
OpenAIClient(config, build) ==
  [class |-> "OpenAIClient", build |-> build,
   config |-> [apiKey |-> config.apiKey,
               baseURL |-> OrElse(config.baseURL, OpenAIBaseURL),
               model |-> OrElse(config.model, OpenAIModel),
               maxTokens |-> OrElse(config.maxTokens, Num(DefaultMaxTokens)),
               temperature |-> OrElse(config.temperature, Num(DefaultTemperature))]]

\* The object createAIClient(providerConfig) of src/src/ai-client.ts returns.
newAIClient(providerConfig) ==
  IF providerConfig.provider = "claude"
  THEN ClaudeClient(providerConfig.config)
  ELSE OpenAIClient(providerConfig.config, "src")

\* The provider a constructed client talks to: its class fixes it.
providerOf(cl) == IF cl.class = "ClaudeClient" THEN "claude" ELSE "openai"

-----------------------------------------------------------------------------
(* Prompt construction of the concrete clients *)

\* `${x}` for a string or an absent value
text(x) == IF x.t = "string" THEN x.v ELSE <<x.t>>

\* ClaudeClient.buildPrompt and OpenAIClient.buildPrompt: the same code.
buildPrompt(request) ==
  (IF Truthy(request.language)
     THEN <<"Language: ">> \o text(request.language) \o <<NL>> ELSE <<>>)
  \o (IF Truthy(request.context)
        THEN <<"Context:", NL>> \o text(request.context) \o <<NL, NL>> ELSE <<>>)
  \o <<"Complete the following code:", NL>> \o text(request.prompt)

\* parts.join('\n\n')
RECURSIVE join(_)
join(parts) ==
  IF parts = <<>> THEN <<>>
  ELSE IF Len(parts) = 1 THEN Head(parts)
  ELSE Head(parts) \o <<NL, NL>> \o join(Tail(parts))

\* BaseAIClient.buildPrompt: the sections are collected and joined with a
\* blank line.  No concrete client inherits it.
baseBuildPrompt(request) ==
  join((IF Truthy(request.language)
          THEN <<(<<"Language: ">> \o text(request.language))>> ELSE <<>>)
       \o (IF Truthy(request.context)
             THEN <<(<<"Context:", NL>> \o text(request.context))>> ELSE <<>>)
       \o <<(<<"Complete the following code:", NL>> \o text(request.prompt))>>)

-----------------------------------------------------------------------------
(* Response parsing.  A parser returns [ok |-> TRUE, value |-> response]   *)
(* or, when the code throws, [ok |-> FALSE, error |-> the error].          *)
(* Confidences are in hundredths (0.9 is 90).                              *)

Returned(v) == [ok |-> TRUE, value |-> v]

Thrown(e) == [ok |-> FALSE, error |-> e]

CannotRead == PlainError("TypeError", <<"Cannot read properties of ", "nullish">>)

NotAFunction == PlainError("TypeError", <<"trim is not a function">>)

Suggestion(txt, confidence) ==
  [text |-> txt, confidence |-> confidence, type |-> "completion"]

\* Array.isArray(x) && the elements of x, else no elements
Elements(x) == IF x.t = "array" THEN x.v ELSE <<>>

\* OpenAIClient.calculateConfidence (lib/index.js only)
calculateConfidence(choice) ==
  IF Prop(choice, "finish_reason") = Str(<<"stop">>) THEN Num(90)
  ELSE IF Prop(choice, "finish_reason") = Str(<<"length">>) THEN Num(70)
  ELSE Num(50)

\* The confidence a parsed choice gets: src/src/ai-client.ts sets none.
choiceConfidence(choice, build) ==
  IF build = "lib" THEN calculateConfidence(choice) ELSE Undef

\* One iteration of the loop over data.choices: "throw", "skip" or "push".
\* body is choice.message.content (chat) or choice.text (legacy).
choiceStep(choice, legacy, build) ==
  IF ~CanRead(choice) THEN [k |-> "throw", error |-> CannotRead]
  ELSE LET body == IF legacy THEN Prop(choice, "text")
                   ELSE IF Truthy(Prop(choice, "message"))
                        THEN Prop(Prop(choice, "message"), "content")
                        ELSE Undef
       IN IF ~Truthy(body) THEN [k |-> "skip"]
          ELSE IF body.t # "string" THEN [k |-> "throw", error |-> NotAFunction]
          ELSE IF trim(body.v) = <<>> THEN [k |-> "skip"]
          ELSE [k |-> "push",
                s |-> Suggestion(trim(body.v), choiceConfidence(choice, build))]

RECURSIVE choicesLoop(_, _, _, _)
choicesLoop(choices, legacy, build, acc) ==
  IF choices = <<>> THEN Returned(acc)
  ELSE LET st == choiceStep(Head(choices), legacy, build)
       IN IF st.k = "throw" THEN Thrown(st.error)
          ELSE choicesLoop(Tail(choices), legacy, build,
                           IF st.k = "push" THEN Append(acc, st.s) ELSE acc)

openAIUsage(data) ==
  IF Truthy(Prop(data, "usage"))
  THEN Obj([promptTokens |-> Prop(Prop(data, "usage"), "prompt_tokens"),
            completionTokens |-> Prop(Prop(data, "usage"), "completion_tokens"),
            totalTokens |-> Prop(Prop(data, "usage"), "total_tokens")])
  ELSE Undef

\* OpenAIClient.parseResponse (legacy = FALSE) and parseLegacyResponse
\* (legacy = TRUE), of either build.
parseOpenAI(data, legacy, build) ==
  IF ~CanRead(data) THEN Thrown(CannotRead)
  ELSE LET loop == IF Truthy(Prop(data, "choices"))
                   THEN choicesLoop(Elements(Prop(data, "choices")), legacy, build, <<>>)
                   ELSE Returned(<<>>)
       IN IF ~loop.ok THEN loop
          ELSE Returned([suggestions |-> loop.value,
                         model |-> Prop(data, "model"),
                         usage |-> openAIUsage(data)])

\* text.split('\n')
RECURSIVE split(_, _)
split(s, cur) ==
  IF s = <<>> THEN <<cur>>
  ELSE IF Head(s) = NL THEN <<cur>> \o split(Tail(s), <<>>)
  ELSE split(Tail(s), Append(cur, Head(s)))

\* lines.filter(line => line.trim())
RECURSIVE nonBlank(_)
nonBlank(lines) ==
  IF lines = <<>> THEN <<>>
  ELSE IF trim(Head(lines)) = <<>> THEN nonBlank(Tail(lines))
  ELSE <<Head(lines)>> \o nonBlank(Tail(lines))

Min(a, b) == IF a <= b THEN a ELSE b

\* The inner loop of ClaudeClient.parseResponse: one suggestion per line,
\* i counted from 0, confidence 0.9 - i * 0.1.
lineSuggestions(lines, maxSuggestions) ==
  [i \in 1..Min(Len(lines), maxSuggestions) |->
     Suggestion(trim(lines[i]), Num(90 - (i - 1) * 10))]

\* The loop over data.content, left at the first text block with text.
RECURSIVE contentLoop(_, _)
contentLoop(blocks, maxSuggestions) ==
  IF blocks = <<>> THEN Returned(<<>>)
  ELSE LET block == Head(blocks) IN
       IF ~CanRead(block) THEN Thrown(CannotRead)
       ELSE IF Prop(block, "type") = Str(<<"text">>) /\ Truthy(Prop(block, "text"))
       THEN IF Prop(block, "text").t # "string" THEN Thrown(NotAFunction)
            ELSE IF trim(Prop(block, "text").v) # <<>>
            THEN Returned(lineSuggestions(
                   nonBlank(split(trim(Prop(block, "text").v), <<>>)),
                   maxSuggestions))
            ELSE contentLoop(Tail(blocks), maxSuggestions)
       ELSE contentLoop(Tail(blocks), maxSuggestions)

\* x[0]
First(x) ==
  IF x.t = "array" /\ x.v # <<>> THEN x.v[1]
  ELSE IF x.t = "string" /\ x.v # <<>> THEN Str(<<x.v[1]>>)
  ELSE Undef

\* The fallback after the loop: the whole text of data.content[0].
claudeFallback(data, suggestions) ==
  IF suggestions = <<>> /\ Truthy(Prop(data, "content"))
     /\ Truthy(First(Prop(data, "content")))
     /\ Truthy(Prop(First(Prop(data, "content")), "text"))
  THEN IF Prop(First(Prop(data, "content")), "text").t # "string"
       THEN Thrown(NotAFunction)
       ELSE Returned(<<Suggestion(trim(Prop(First(Prop(data, "content")), "text").v),
                                  Num(90))>>)
  ELSE Returned(suggestions)

\* Token counts are numbers or absent.
claudeUsage(data) ==
  IF Truthy(Prop(data, "usage"))
  THEN LET in == OrElse(Prop(Prop(data, "usage"), "input_tokens"), Num(0))
           out == OrElse(Prop(Prop(data, "usage"), "output_tokens"), Num(0))
       IN Obj([promptTokens |-> in, completionTokens |-> out,
               totalTokens |-> Num(in.v + out.v)])
  ELSE Undef

\* ClaudeClient.parseResponse
parseClaude(data, maxSuggestions) ==
  IF ~CanRead(data) THEN Thrown(CannotRead)
  ELSE LET loop == IF Truthy(Prop(data, "content"))
                   THEN contentLoop(Elements(Prop(data, "content")), maxSuggestions)
                   ELSE Returned(<<>>)
       IN IF ~loop.ok THEN loop
          ELSE LET all == claudeFallback(data, loop.value)
               IN IF ~all.ok THEN all
                  ELSE Returned([suggestions |-> all.value,
                                 model |-> Prop(data, "model"),
                                 usage |-> claudeUsage(data)])

-----------------------------------------------------------------------------
(* Inputs *)

ApiKeys == {Undef, Str(<<>>), Str(<<" ">>), Str(<<"k">>)}

Temperatures == {Undef, Num(-1), Num(0), Num(5), Num(10), Num(11)}

MaxTokensValues == {Undef, Num(-5), Num(0), Num(50)}

Endpoints ==
  {[baseURL |-> Undef, model |-> Undef],
   [baseURL |-> Str(<<"http://localhost:11434/v1">>), model |-> Str(<<"codellama:7b">>)]}

\* AIConfig values a caller can pass
Configs ==
  {[apiKey |-> k, baseURL |-> e.baseURL, model |-> e.model,
    maxTokens |-> m, temperature |-> t] :
     k \in ApiKeys, e \in Endpoints, m \in MaxTokensValues, t \in Temperatures}

\* The provider setting is a free string cast to AIProvider
\* (getAIConfigFromWorkspace, ai-client.ts:538).
ProviderTags == {"openai", "claude", "bard"}

Request(prompt, context, language, maxSuggestions) ==
  [prompt |-> prompt, context |-> context, language |-> language,
   maxSuggestions |-> maxSuggestions]

\* CompletionRequest values a caller can pass
Requests ==
  {Request(Str(<<"a">>), Undef, Str(<<"ts">>), Undef),
   Request(Str(<<"b">>), Str(<<"c">>), Undef, Num(1)),
   Request(Str(<<>>), Undef, Undef, Undef),
   Request(Str(<<" ">>), Undef, Undef, Num(2)),
   Request(Str(<<"a">>), Undef, Undef, Num(0)),
   Request(Str(<<"b">>), Undef, Undef, Num(-1))}

\* The requests issued in the specification that explores every config
ConfigRequests ==
  {Request(Str(<<"a">>), Undef, Str(<<"ts">>), Undef),
   Request(Str(<<" ">>), Undef, Undef, Num(2))}

\* Calls in flight on one client
MaxCalls == 2

\* Calls on a client in the specification that explores every config
MaxConfigCalls == 1

-----------------------------------------------------------------------------
(* The wire *)

\* No reply yet, and the outcome of a fetch that never connected
NoReply == [status |-> 0]

NoConnection == [status |-> -1]

NotJson == [t |-> "notjson"]

\* The request a call hands to fetch(): endpoint, auth header, JSON body.
\* mode is "messages" (Claude), "chat" or "legacy" (OpenAI).
fetchRequest(cl, mode, request, c) ==
  [call |-> c,
   url |-> text(cl.config.baseURL)
           \o (CASE mode = "messages" -> <<"/v1/messages">>
                 [] mode = "chat" -> <<"/chat/completions">>
                 [] mode = "legacy" -> <<"/completions">>),
   auth |-> IF mode = "messages" THEN <<"x-api-key: ">> \o text(cl.config.apiKey)
            ELSE <<"Authorization: Bearer ">> \o text(cl.config.apiKey),
   body |-> [model |-> IF mode = "legacy" THEN LegacyModel ELSE cl.config.model,
             max_tokens |-> cl.config.maxTokens,
             temperature |-> cl.config.temperature,
             n |-> IF mode = "messages" THEN Undef
                   ELSE OrElse(request.maxSuggestions, Num(DefaultMaxSuggestions)),
             prompt |-> buildPrompt(request)],
   reply |-> NoReply]

\* A well-formed body answering the wire request w: the completion text is
\* the prompt the request carried.
EchoBody(w, mode) ==
  CASE mode = "messages" ->
         Obj([content |-> Arr(<<Obj([type |-> Str(<<"text">>),
                                     text |-> Str(w.body.prompt)])>>),
              model |-> w.body.model,
              usage |-> Obj([input_tokens |-> Num(7), output_tokens |-> Num(2)])])
    [] mode = "chat" ->
         Obj([choices |-> Arr(<<Obj([message |-> Obj([content |-> Str(w.body.prompt)]),
                                     finish_reason |-> Str(<<"stop">>)])>>),
              model |-> w.body.model,
              usage |-> Obj([prompt_tokens |-> Num(7), completion_tokens |-> Num(2),
                             total_tokens |-> Num(9)])])
    [] mode = "legacy" ->
         Obj([choices |-> Arr(<<Obj([text |-> Str(w.body.prompt),
                                     finish_reason |-> Str(<<"length">>)])>>),
              model |-> w.body.model])

\* What the remote end can answer to the wire request w.
Replies(w, mode) ==
  {[status |-> 401, statusText |-> "Unauthorized", body |-> EchoBody(w, mode)],
   [status |-> 500, statusText |-> "Internal Server Error", body |-> NotJson]}
  \cup {[status |-> 200, statusText |-> "OK", body |-> b] :
          b \in {EchoBody(w, mode), Obj(<<>>), NotJson}}

\* response.ok
IsOk(reply) == reply.status >= 200 /\ reply.status <= 299

-----------------------------------------------------------------------------
(* State *)

\* client:  the constructed client object, Null before construction
\* created: what the construction was given and what it held when it returned
\* calls:   the getCompletions / getLegacyCompletions invocations, in the
\*          order they were made, each with its own locals
\* wire:    every request handed to fetch(), in order, with the reply the
\*          remote end gave to it
TypeOK ==
  /\ client = Null \/ client.class \in {"OpenAIClient", "ClaudeClient"}
  /\ \A c \in DOMAIN calls :
       calls[c].pc \in {"awaitFetch", "awaitJson", "returned", "threw"}
  /\ \A k \in DOMAIN wire : wire[k].call \in DOMAIN calls

\* pin, pout: the argument and the result of a function applied on its own
\*            (used by SpecPure only)
PureIdle == pin = Null /\ pout = Null

\* settings, aiClient, cmds, comps, lastInit: the extension of
\* src/src/index.ts (used by SpecEditor only); Null settings: not loaded
EditorIdle ==
  /\ settings = Null
  /\ aiClient = Null
  /\ cmds = <<>>
  /\ comps = <<>>
  /\ lastInit = Null

Init ==
  /\ client = Null
  /\ created = Null
  /\ calls = <<>>
  /\ wire = <<>>
  /\ PureIdle
  /\ EditorIdle

\* createAIClient(providerConfig) of src/src/ai-client.ts
createAIClient(providerConfig) ==
  /\ client = Null
  /\ client' = newAIClient(providerConfig)
  /\ created' = [entry |-> "src", provider |-> providerConfig.provider,
                 config |-> providerConfig.config,
                 held |-> newAIClient(providerConfig).config]
  /\ UNCHANGED <<calls, wire>>
  /\ UNCHANGED <<pureVars, editorVars>>

\* createAIClient(config) of lib/index.js: no provider tag, always OpenAI
libCreateAIClient(config) ==
  /\ client = Null
  /\ client' = OpenAIClient(config, "lib")
  /\ created' = [entry |-> "lib", provider |-> "openai", config |-> config,
                 held |-> OpenAIClient(config, "lib").config]
  /\ UNCHANGED <<calls, wire>>
  /\ UNCHANGED <<pureVars, editorVars>>

\* The synchronous part of a call, up to `await fetch(...)`: the prompt is
\* built and the request is handed to fetch.
startCall(mode, request, limit) ==
  /\ client # Null
  /\ Len(calls) < limit
  /\ calls' = Append(calls, [mode |-> mode, request |-> request,
                             pc |-> "awaitFetch", response |-> NoReply,
                             result |-> Undef, raised |-> NoError,
                             error |-> NoError])
  /\ wire' = Append(wire, fetchRequest(client, mode, request, Len(calls) + 1))
  /\ UNCHANGED <<client, created>>
  /\ UNCHANGED <<pureVars, editorVars>>

\* ClaudeClient.getCompletions / OpenAIClient.getCompletions
getCompletions(request, limit) ==
  /\ client # Null
  /\ startCall(IF client.class = "ClaudeClient" THEN "messages" ELSE "chat",
               request, limit)

\* OpenAIClient.getLegacyCompletions
getLegacyCompletions(request, limit) ==
  /\ client # Null
  /\ client.class = "OpenAIClient"
  /\ startCall("legacy", request, limit)

\* The wire request call c is waiting on.
pendingOf(c) == CHOOSE k \in DOMAIN wire : wire[k].call = c /\ wire[k].reply = NoReply

\* The error thrown on a non-2xx response: a plain Error whose message
\* carries the status.
apiError(cl, reply) ==
  PlainError("Error",
             <<IF cl.class = "ClaudeClient" THEN "Claude API error: "
               ELSE "OpenAI API error: ", reply.status, reply.statusText>>)

\* catch (error) { console.error(...); throw error; }: what the caller of the
\* call gets when `error` was raised inside the try block.
rethrown(error) == error

\* fetch() resolves with a response: on a non-2xx status the call throws,
\* otherwise it goes on to await response.json().
fetchFulfilled(c) ==
  /\ c \in DOMAIN calls
  /\ calls[c].pc = "awaitFetch"
  /\ \E reply \in Replies(wire[pendingOf(c)], calls[c].mode) :
       /\ wire' = [wire EXCEPT ![pendingOf(c)].reply = reply]
       /\ calls' = [calls EXCEPT ![c] =
            IF ~IsOk(reply)
            THEN [@ EXCEPT !.pc = "threw", !.response = reply,
                           !.raised = apiError(client, reply),
                           !.error = rethrown(apiError(client, reply))]
            ELSE [@ EXCEPT !.pc = "awaitJson", !.response = reply]]
  /\ UNCHANGED <<client, created>>
  /\ UNCHANGED <<pureVars, editorVars>>

\* Mutant of fetchRejected: a rejected fetch is retried once before the call
\* gives up.
fetchRejectedRetry(c) ==
  /\ c \in DOMAIN calls
  /\ calls[c].pc = "awaitFetch"
  /\ IF Cardinality({k \in DOMAIN wire : wire[k].call = c}) < 2
     THEN /\ wire' = Append([wire EXCEPT ![pendingOf(c)].reply = NoConnection],
                            [wire[pendingOf(c)] EXCEPT !.reply = NoReply])
          /\ UNCHANGED calls
     ELSE /\ wire' = [wire EXCEPT ![pendingOf(c)].reply = NoConnection]
          /\ calls' = [calls EXCEPT ![c] =
               [@ EXCEPT !.pc = "threw",
                         !.raised = PlainError("TypeError", FetchFailed),
                         !.error = PlainError("TypeError", FetchFailed)]]
  /\ UNCHANGED <<client, created>>
  /\ UNCHANGED <<pureVars, editorVars>>

\* fetch() rejects (no connection): the TypeError is rethrown.
fetchRejected(c) ==
  /\ c \in DOMAIN calls
  /\ calls[c].pc = "awaitFetch"
  /\ wire' = [wire EXCEPT ![pendingOf(c)].reply = NoConnection]
  /\ calls' = [calls EXCEPT ![c] =
       [@ EXCEPT !.pc = "threw",
                 !.raised = PlainError("TypeError", FetchFailed),
                 !.error = rethrown(PlainError("TypeError", FetchFailed))]]
  /\ UNCHANGED <<client, created>>
  /\ UNCHANGED <<pureVars, editorVars>>

\* Mutant of responseOf: the response is kept in a field of the client, which
\* a later call's response overwrites.
sharedResponse(c) ==
  calls[CHOOSE d \in DOMAIN calls :
          /\ calls[d].response # NoReply
          /\ \A e \in DOMAIN calls : calls[e].response # NoReply => e <= d].response

\* `const response = await fetch(...)`: the response a call parses is its own
\* local.
responseOf(c) == calls[c].response

\* request.maxSuggestions || 3
maxSuggestionsOf(request) ==
  OrElse(request.maxSuggestions, Num(DefaultMaxSuggestions)).v

\* this.parseResponse(data, ...) / this.parseLegacyResponse(data) of the
\* class and build of cl
parseResponse(cl, mode, data, request) ==
  IF cl.class = "ClaudeClient" THEN parseClaude(data, maxSuggestionsOf(request))
  ELSE parseOpenAI(data, mode = "legacy", cl.build)

\* response.json() resolves: the data is parsed and returned; an error
\* thrown while parsing is rethrown.
jsonFulfilled(c) ==
  /\ c \in DOMAIN calls
  /\ calls[c].pc = "awaitJson"
  /\ responseOf(c).body # NotJson
  /\ LET parsed == parseResponse(client, calls[c].mode, responseOf(c).body,
                                 calls[c].request)
     IN calls' = [calls EXCEPT ![c] =
          IF parsed.ok THEN [@ EXCEPT !.pc = "returned", !.result = parsed.value]
          ELSE [@ EXCEPT !.pc = "threw", !.raised = parsed.error,
                         !.error = rethrown(parsed.error)]]
  /\ UNCHANGED <<client, created, wire>>
  /\ UNCHANGED <<pureVars, editorVars>>

\* response.json() rejects (the body is not JSON): the SyntaxError is rethrown.
jsonRejected(c) ==
  /\ c \in DOMAIN calls
  /\ calls[c].pc = "awaitJson"
  /\ responseOf(c).body = NotJson
  /\ calls' = [calls EXCEPT ![c] =
       [@ EXCEPT !.pc = "threw",
                 !.raised = PlainError("SyntaxError", <<"Unexpected token">>),
                 !.error = rethrown(PlainError("SyntaxError", <<"Unexpected token">>))]]
  /\ UNCHANGED <<client, created, wire>>
  /\ UNCHANGED <<pureVars, editorVars>>

\* A client is constructed from any config, then called.
Next ==
  \/ \E tag \in ProviderTags, cfg \in Configs :
       createAIClient([provider |-> tag, config |-> cfg])
  \/ \E cfg \in Configs : libCreateAIClient(cfg)
  \/ \E r \in ConfigRequests : getCompletions(r, MaxConfigCalls)
  \/ \E r \in ConfigRequests : getLegacyCompletions(r, MaxConfigCalls)
  \/ \E c \in 1..MaxConfigCalls : fetchFulfilled(c)
  \/ \E c \in 1..MaxConfigCalls : fetchRejected(c)
  \/ \E c \in 1..MaxConfigCalls : jsonFulfilled(c)
  \/ \E c \in 1..MaxConfigCalls : jsonRejected(c)

Spec == Init /\ [][Next]_vars

\* The configs of the clients that take concurrent calls
CallConfigs ==
  {[apiKey |-> Str(<<"k">>), baseURL |-> Undef, model |-> Undef,
    maxTokens |-> Undef, temperature |-> Undef]}

\* A client of either provider has been constructed by createAIClient.
InitCalls ==
  /\ \E tag \in {"openai", "claude"}, cfg \in CallConfigs :
       /\ client = newAIClient([provider |-> tag, config |-> cfg])
       /\ created = [entry |-> "src", provider |-> tag, config |-> cfg,
                     held |-> newAIClient([provider |-> tag, config |-> cfg]).config]
  /\ calls = <<>>
  /\ wire = <<>>
  /\ PureIdle
  /\ EditorIdle

\* Calls on one client, in flight together, answered in any order.
NextCalls ==
  \/ \E r \in Requests : getCompletions(r, MaxCalls)
  \/ \E r \in Requests : getLegacyCompletions(r, MaxCalls)
  \/ \E c \in 1..MaxCalls : fetchFulfilled(c)
  \/ \E c \in 1..MaxCalls : fetchRejected(c)
  \/ \E c \in 1..MaxCalls : jsonFulfilled(c)
  \/ \E c \in 1..MaxCalls : jsonRejected(c)

SpecCalls == InitCalls /\ [][NextCalls]_vars

-----------------------------------------------------------------------------
(* Prompt building and response parsing on their own: a function of the    *)
(* client is applied to one argument drawn from a bounded set.             *)

\* The requests whose prompt is built
PromptRequests ==
  {Request(p, c, l, m) :
     p \in {Str(<<"a">>), Str(<<"a", NL, "b">>), Str(<<>>)},
     c \in {Undef, Str(<<>>), Str(<<"c">>)},
     l \in {Undef, Str(<<>>), Str(<<"ts">>)},
     m \in {Undef, Num(2)}}

\* Sequences over S of length at most n
SeqsUpTo(S, n) == UNION {[1..k -> S] : k \in 0..n}

\* Entries of data.choices in one response
MaxChoices == 2

\* Content blocks in one response
MaxBlocks == 2

\* Lines of the longest text block
MaxLines == 11

\* choice.message.content / choice.text values a response can carry
Bodies ==
  {Str(<<"f", "o", "o">>), Str(<<" ", "x", " ">>), Str(<<" ">>), Str(<<>>),
   Undef, Null, Num(5)}

FinishReasons == {Str(<<"stop">>), Str(<<"length">>), Str(<<"content_filter">>), Undef}

\* One entry of data.choices, in the shape of the chat or the legacy API
Choice(body, reason, legacy) ==
  IF legacy THEN Obj([text |-> body, finish_reason |-> reason])
  ELSE Obj([message |-> Obj([content |-> body]), finish_reason |-> reason])

\* Entries of data.choices: every body, every finish_reason, null and {}
Choices(legacy) ==
  {Choice(b, Str(<<"stop">>), legacy) : b \in Bodies}
  \cup {Choice(Str(<<"f", "o", "o">>), r, legacy) : r \in FinishReasons}
  \cup {Null, Obj(<<>>)}

\* usage records of the OpenAI API: complete, total omitted, absent
OpenAIUsages ==
  {Undef,
   Obj([prompt_tokens |-> Num(7), completion_tokens |-> Num(2), total_tokens |-> Num(9)]),
   Obj([prompt_tokens |-> Num(7), completion_tokens |-> Num(2)])}

\* Bodies of a 2xx response that is JSON but has no list of choices / content
Shapeless(key) ==
  {Null, Obj(<<>>), Str(<<"x">>), Arr(<<>>),
   Obj([error |-> Obj([message |-> Str(<<"overloaded">>)])])}
  \cup {Obj([k \in {key} |-> v]) : v \in {Null, Str(<<"x">>), Num(5), Obj(<<>>)}}

\* JSON bodies of a 2xx response of the OpenAI API
OpenAIData(legacy) ==
  {Obj([choices |-> Arr(cs), model |-> Str(<<"gpt">>)]) :
     cs \in SeqsUpTo(Choices(legacy), MaxChoices)}
  \cup {Obj([choices |-> Arr(<<Choice(Str(<<"f", "o", "o">>), Str(<<"stop">>), legacy)>>),
             model |-> Str(<<"gpt">>), usage |-> u]) : u \in OpenAIUsages}
  \cup Shapeless("choices")

\* n lines "a", separated by newlines
RECURSIVE LinesText(_)
LinesText(n) == IF n <= 1 THEN <<"a">> ELSE <<"a", NL>> \o LinesText(n - 1)

\* content[].text values
ClaudeTexts ==
  {Str(<<"a">>), Str(<<"a", NL, "b", NL, "c">>), Str(<<" ", "a", " ", NL, NL, " ", "b">>),
   Str(<<" ", NL>>), Str(<<>>), Str(LinesText(MaxLines)), Num(5), Undef}

Blocks ==
  {Obj([type |-> Str(<<"text">>), text |-> t]) : t \in ClaudeTexts}
  \cup {Obj([type |-> Str(<<"tool_use">>)]),
        Obj([type |-> Str(<<"other">>), text |-> Str(<<"z">>)]),
        Null}

\* usage records of the Claude API: complete, a count missing, empty, absent
ClaudeUsages ==
  {Undef, Obj(<<>>),
   Obj([input_tokens |-> Num(7), output_tokens |-> Num(2)]),
   Obj([input_tokens |-> Num(7)]),
   Obj([output_tokens |-> Num(2)])}

\* JSON bodies of a 2xx response of the Claude API
ClaudeData ==
  {Obj([content |-> Arr(bs), model |-> Str(<<"claude">>)]) :
     bs \in SeqsUpTo(Blocks, MaxBlocks)}
  \cup {Obj([content |-> Arr(<<Obj([type |-> Str(<<"text">>), text |-> Str(<<"a">>)])>>),
             model |-> Str(<<"claude">>), usage |-> u]) : u \in ClaudeUsages}
  \cup Shapeless("content")

\* request.maxSuggestions of the call whose response is parsed
MaxSuggestionsValues == {Undef, Num(-1), Num(0), Num(1), Num(2), Num(MaxLines)}

\* The clients whose parser is applied: both providers, both builds
ParsingClients ==
  {newAIClient([provider |-> tag, config |-> cfg]) :
     tag \in {"openai", "claude"}, cfg \in CallConfigs}
  \cup {OpenAIClient(cfg, "lib") : cfg \in CallConfigs}

\* The arguments of this.parseResponse / this.parseLegacyResponse
ParseInputs ==
  {[fn |-> "parseResponse", cl |-> cl, mode |-> "chat", data |-> d,
    request |-> Request(Str(<<"a">>), Undef, Undef, Undef)] :
     cl \in {c \in ParsingClients : c.class = "OpenAIClient"}, d \in OpenAIData(FALSE)}
  \cup
  {[fn |-> "parseResponse", cl |-> cl, mode |-> "legacy", data |-> d,
    request |-> Request(Str(<<"a">>), Undef, Undef, Undef)] :
     cl \in {c \in ParsingClients : c.class = "OpenAIClient"}, d \in OpenAIData(TRUE)}
  \cup
  {[fn |-> "parseResponse", cl |-> cl, mode |-> "messages", data |-> d,
    request |-> Request(Str(<<"a">>), Undef, Undef, m)] :
     cl \in {c \in ParsingClients : c.class = "ClaudeClient"}, d \in ClaudeData,
     m \in MaxSuggestionsValues}

BuildInputs ==
  {[fn |-> "buildPrompt", cl |-> cl, request |-> r] :
     cl \in ParsingClients, r \in PromptRequests}

InitPure ==
  /\ pin \in BuildInputs \cup ParseInputs
  /\ pout = Null
  /\ client = Null
  /\ created = Null
  /\ calls = <<>>
  /\ wire = <<>>
  /\ EditorIdle

\* this.buildPrompt(request) of a ClaudeClient or an OpenAIClient
applyBuildPrompt ==
  /\ pin.fn = "buildPrompt" /\ pout = Null
  /\ pout' = buildPrompt(pin.request)
  /\ UNCHANGED <<pin, clientVars, editorVars>>

\* const data = await response.json(); return this.parseResponse(data, ...)
\* (or parseLegacyResponse): the step of a call after the body has arrived.
applyParseResponse ==
  /\ pin.fn = "parseResponse" /\ pout = Null
  /\ pout' = parseResponse(pin.cl, pin.mode, pin.data, pin.request)
  /\ UNCHANGED <<pin, clientVars, editorVars>>

NextPure == applyBuildPrompt \/ applyParseResponse

SpecPure == InitPure /\ [][NextPure]_vars

-----------------------------------------------------------------------------
(* BaseAIClient on its own: the constructor and getCompletions of the      *)
(* abstract class, as a subclass calling super(config, provider) would run *)
(* them.  The members the class leaves abstract (normalizeConfig, callAPI, *)
(* parseResponse) have no code: callAPI followed by parseResponse is one   *)
(* drawn outcome, and the normalized config is not represented.            *)

\* AIProvider
AIProviders == {"openai", "claude"}

\* What `await this.callAPI(...)` followed by this.parseResponse(...) can
\* come to: a response, a rejected fetch, or any other error.
APIOutcomes ==
  {Returned([suggestions |-> <<>>]),
   Thrown(PlainError("TypeError", FetchFailed)),
   Thrown(PlainError("Error", <<"boom">>))}

\* new of a subclass: BaseAIClient's constructor.  validateConfig runs first,
\* while this.provider has not been assigned and reads as undefined; the
\* provider is stored only after validation and normalization.
BaseAIClient(config, provider) ==
  LET this == [provider |-> Undef]
      invalid == validateConfig(config, this.provider)
  IN IF invalid # NoError THEN Thrown(invalid)
     ELSE Returned([this EXCEPT !.provider = Str(<<provider>>)])

\* BaseAIClient.getCompletions on a constructed object: whatever the try
\* block throws goes through handleError.
baseGetCompletions(this, request, api) ==
  LET invalid == validateRequest(request, this.provider)
  IN IF invalid # NoError THEN Thrown(handleError(invalid, this.provider))
     ELSE IF ~api.ok THEN Thrown(handleError(api.error, this.provider))
     ELSE api

BaseInputs ==
  {[fn |-> "BaseAIClient", config |-> c, provider |-> p, request |-> r,
    api |-> a] :
     c \in Configs, p \in AIProviders, r \in Requests, a \in APIOutcomes}

InitBase ==
  /\ pin \in BaseInputs
  /\ pout = Null
  /\ client = Null
  /\ created = Null
  /\ calls = <<>>
  /\ wire = <<>>
  /\ EditorIdle

\* super(config, provider)
constructBase ==
  /\ pin.fn = "BaseAIClient" /\ pout = Null
  /\ pout' = [this |-> BaseAIClient(pin.config, pin.provider), call |-> Null]
  /\ UNCHANGED <<pin, clientVars, editorVars>>

\* getCompletions(request) on the object the constructor returned
getCompletionsBase ==
  /\ pin.fn = "BaseAIClient" /\ pout # Null
  /\ pout.this.ok /\ pout.call = Null
  /\ pout' = [pout EXCEPT !.call =
                baseGetCompletions(pout.this.value, pin.request, pin.api)]
  /\ UNCHANGED <<pin, clientVars, editorVars>>

NextBase == constructBase \/ getCompletionsBase

SpecBase == InitBase /\ [][NextBase]_vars

-----------------------------------------------------------------------------
(* The extension (src/src/index.ts, lines 1-147): the held client, the two  *)
(* commands that change it and the completion source that uses it.  The    *)
(* settings are a map from key to value; a handler is a sequence of steps  *)
(* cut at its awaits, and handlers in flight interleave at those points.   *)

SettingKeys == {"ai.enabled", "provider", "openai.apiKey", "claude.apiKey"}

\* config.get(key, default)
get(s, key, default) == IF s[key] = Undef THEN default ELSE s[key]

\* Mutant of getAIConfigFromWorkspace: the `if (!apiKey) return null` tests
\* are missing.
getAIConfigNoKeyTest(s) ==
  IF get(s, "provider", Str(<<"openai">>)) = Str(<<"claude">>)
  THEN [provider |-> "claude",
        config |-> [apiKey |-> s["claude.apiKey"], baseURL |-> Undef,
                    model |-> Undef, maxTokens |-> Undef, temperature |-> Undef]]
  ELSE [provider |-> "openai",
        config |-> [apiKey |-> s["openai.apiKey"], baseURL |-> OpenAIBaseURL,
                    model |-> OpenAIModel, maxTokens |-> Num(DefaultMaxTokens),
                    temperature |-> Num(DefaultTemperature)]]

\* getAIConfigFromWorkspace(), reading the settings s.  The OpenAI values
\* other than the key are the defaults package.json declares; the Claude
\* settings have none.
getAIConfigFromWorkspace(s) ==
  IF get(s, "provider", Str(<<"openai">>)) = Str(<<"claude">>)
  THEN IF ~Truthy(s["claude.apiKey"]) THEN Null
       ELSE [provider |-> "claude",
             config |-> [apiKey |-> s["claude.apiKey"], baseURL |-> Undef,
                         model |-> Undef, maxTokens |-> Undef,
                         temperature |-> Undef]]
  ELSE IF ~Truthy(s["openai.apiKey"]) THEN Null
       ELSE [provider |-> "openai",
             config |-> [apiKey |-> s["openai.apiKey"],
                         baseURL |-> OpenAIBaseURL,
                         model |-> OpenAIModel,
                         maxTokens |-> Num(DefaultMaxTokens),
                         temperature |-> Num(DefaultTemperature)]]

\* The client initializeAIClient() leaves in aiClient under the settings s
initialized(s) ==
  IF getAIConfigFromWorkspace(s) # Null
  THEN newAIClient(getAIConfigFromWorkspace(s))
  ELSE Null

\* initializeAIClient(), run under the settings s; lastInit records what
\* its latest run read and left.
initializeAIClient(s) ==
  /\ aiClient' = initialized(s)
  /\ lastInit' = [settings |-> s, config |-> getAIConfigFromWorkspace(s),
                  client |-> initialized(s)]

\* Handlers started in one run of the extension
MaxCommands == 2

\* What the user types at window.requestInput: a key, or nothing
InputKeys == {Str(<<"n">>), Str(<<>>)}

Settings(enabled, provider, openaiKey, claudeKey) ==
  [k \in SettingKeys |->
     CASE k = "ai.enabled" -> enabled
       [] k = "provider" -> provider
       [] k = "openai.apiKey" -> openaiKey
       [] k = "claude.apiKey" -> claudeKey]

\* The settings the extension starts with: the feature off (the default) or
\* on, the selected provider with or without its key, the other provider
\* without
InitialSettings ==
  {Settings(e, Undef, o, Undef) :
     e \in {Undef, Bool(TRUE)}, o \in {Str(<<>>), Str(<<"k">>)}}
  \cup {Settings(e, Str(<<"claude">>), Str(<<>>), c) :
          e \in {Undef, Bool(TRUE)}, c \in {Undef, Str(<<"c">>)}}

\* The module is loaded, activate() has not run.
InitEditor ==
  /\ settings \in InitialSettings
  /\ aiClient = Null
  /\ cmds = <<>>
  /\ comps = <<>>
  /\ lastInit = Null
  /\ client = Null
  /\ created = Null
  /\ calls = <<>>
  /\ wire = <<>>
  /\ PureIdle

activated == lastInit # Null

\* activate(): initializeAIClient(), then the commands and the completion
\* source are registered.
activate ==
  /\ ~activated
  /\ initializeAIClient(settings)
  /\ UNCHANGED <<settings, cmds, comps, clientVars, pureVars>>

\* config.update(key, value, true) has been called and is awaited.
Write(key, value) == [key |-> key, value |-> value, landed |-> FALSE]

\* coc-agent.toggleAI, up to `await config.update('ai.enabled', !enabled, true)`
toggleAI ==
  /\ activated
  /\ Len(cmds) < MaxCommands
  /\ LET enabled == Truthy(get(settings, "ai.enabled", Bool(FALSE)))
     IN cmds' = Append(cmds, [cmd |-> "toggleAI", pc |-> "awaitUpdate",
                               enabled |-> enabled,
                               write |-> Write("ai.enabled", Bool(~enabled))])
  /\ UNCHANGED <<settings, aiClient, comps, lastInit, clientVars, pureVars>>

\* The update a handler awaits is written to the settings, at some point
\* between the call of config.update and the resumption of the handler.
updateLands(i) ==
  /\ i \in DOMAIN cmds
  /\ cmds[i].pc \in {"awaitUpdate", "awaitKeyUpdate", "awaitEnabledUpdate"}
  /\ ~cmds[i].write.landed
  /\ settings' = [settings EXCEPT ![cmds[i].write.key] = cmds[i].write.value]
  /\ cmds' = [cmds EXCEPT ![i].write.landed = TRUE]
  /\ UNCHANGED <<aiClient, comps, lastInit, clientVars, pureVars>>

\* toggleAI after its await: the client is initialized when the feature was
\* off, dropped when it was on.
toggleUpdated(i) ==
  /\ i \in DOMAIN cmds
  /\ cmds[i].cmd = "toggleAI" /\ cmds[i].pc = "awaitUpdate"
  /\ cmds[i].write.landed
  /\ IF ~cmds[i].enabled THEN initializeAIClient(settings)
     ELSE aiClient' = Null /\ UNCHANGED lastInit
  /\ cmds' = [cmds EXCEPT ![i] = [cmd |-> "toggleAI", pc |-> "done",
                                   enabled |-> cmds[i].enabled]]
  /\ UNCHANGED <<settings, comps, clientVars, pureVars>>

\* coc-agent.configureAI, up to `await window.requestInput(...)`
configureAI ==
  /\ activated
  /\ Len(cmds) < MaxCommands
  /\ cmds' = Append(cmds, [cmd |-> "configureAI", pc |-> "awaitInput"])
  /\ UNCHANGED <<settings, aiClient, comps, lastInit, clientVars, pureVars>>

\* requestInput resolves with apiKey: without a key the handler ends, with
\* one it goes on to `await config.update('openai.apiKey', apiKey, true)`.
inputEntered(i, apiKey) ==
  /\ i \in DOMAIN cmds
  /\ cmds[i].cmd = "configureAI" /\ cmds[i].pc = "awaitInput"
  /\ cmds' = [cmds EXCEPT ![i] =
       IF Truthy(apiKey)
       THEN [cmd |-> "configureAI", pc |-> "awaitKeyUpdate", apiKey |-> apiKey,
             write |-> Write("openai.apiKey", apiKey)]
       ELSE [cmd |-> "configureAI", pc |-> "done", apiKey |-> apiKey]]
  /\ UNCHANGED <<settings, aiClient, comps, lastInit, clientVars, pureVars>>

\* configureAI after its second await, up to
\* `await config.update('ai.enabled', true, true)`
keyUpdated(i) ==
  /\ i \in DOMAIN cmds
  /\ cmds[i].cmd = "configureAI" /\ cmds[i].pc = "awaitKeyUpdate"
  /\ cmds[i].write.landed
  /\ cmds' = [cmds EXCEPT ![i] = [@ EXCEPT !.pc = "awaitEnabledUpdate",
                                            !.write = Write("ai.enabled", Bool(TRUE))]]
  /\ UNCHANGED <<settings, aiClient, comps, lastInit, clientVars, pureVars>>

\* configureAI after its third await: initializeAIClient()
enabledUpdated(i) ==
  /\ i \in DOMAIN cmds
  /\ cmds[i].cmd = "configureAI" /\ cmds[i].pc = "awaitEnabledUpdate"
  /\ cmds[i].write.landed
  /\ initializeAIClient(settings)
  /\ cmds' = [cmds EXCEPT ![i] = [cmd |-> "configureAI", pc |-> "done",
                                   apiKey |-> cmds[i].apiKey]]
  /\ UNCHANGED <<settings, comps, clientVars, pureVars>>

\* lines.join('\n')
RECURSIVE joinLines(_)
joinLines(lines) ==
  IF lines = <<>> THEN <<>>
  ELSE IF Len(lines) = 1 THEN Head(lines)
  ELSE Head(lines) \o <<NL>> \o joinLines(Tail(lines))

Max(a, b) == IF a >= b THEN a ELSE b

\* getContextFromDocument: the five lines before and after the cursor; ''
\* when reading the document throws.
getContextFromDocument(document, position) ==
  IF Prop(document, "textDocument").t # "string" \/ ~CanRead(position)
  THEN Str(<<>>)
  ELSE LET lines == split(Prop(document, "textDocument").v, <<>>)
           startLine == Max(0, Prop(position, "line").v - 5)
           endLine == Min(Len(lines) - 1, Prop(position, "line").v + 5)
       IN Str(joinLines(SubSeq(lines, startLine + 1, endLine + 1)))

\* The completion options the editor passes to doComplete
Opts ==
  {Undef,
   Obj([document |-> Obj([textDocument |-> Str(<<"x", NL, "y">>),
                          languageId |-> Str(<<"ts">>)]),
        position |-> Obj([line |-> Num(1)]), input |-> Str(<<"a">>)]),
   Obj([position |-> Obj([line |-> Num(0)]), input |-> Str(<<"a">>)])}

\* Completion requests of the editor in one run
MaxCompletions == 1

\* What the remote end can answer to a call the extension makes: no
\* connection, a 500, and a 200 whose body is well-formed, JSON null or not
\* JSON
EditorReplies(w, mode) ==
  {NoConnection,
   [status |-> 500, statusText |-> "Internal Server Error", body |-> NotJson]}
  \cup {[status |-> 200, statusText |-> "OK", body |-> b] :
          b \in {EchoBody(w, mode), Null, NotJson}}

\* What aiClient.getCompletions(request) settles with when the remote end
\* answers reply: the steps fetchFulfilled / fetchRejected / jsonFulfilled /
\* jsonRejected of one call.
callOutcome(cl, mode, request, reply) ==
  IF reply = NoConnection THEN Thrown(rethrown(PlainError("TypeError", FetchFailed)))
  ELSE IF ~IsOk(reply) THEN Thrown(rethrown(apiError(cl, reply)))
  ELSE IF reply.body = NotJson
  THEN Thrown(rethrown(PlainError("SyntaxError", <<"Unexpected token">>)))
  ELSE IF parseResponse(cl, mode, reply.body, request).ok
  THEN parseResponse(cl, mode, reply.body, request)
  ELSE Thrown(rethrown(parseResponse(cl, mode, reply.body, request).error))

\* The completion item of a suggestion; the menu shows the confidence in
\* percent, 50 when the suggestion has none (or 0).
itemOf(suggestion, index, response) ==
  [word |-> suggestion.text,
   menu |-> IF Truthy(suggestion.confidence) THEN suggestion.confidence.v ELSE 50,
   kind |-> "Text", sortText |-> index,
   detail |-> OrElse(response.model, Str(<<"unknown">>))]

\* Mutant of caughtAI: getAICompletions without its catch block.
uncaughtAI(outcome) ==
  IF outcome.ok
  THEN Returned([i \in DOMAIN outcome.value.suggestions |->
                   itemOf(outcome.value.suggestions[i], i - 1, outcome.value)])
  ELSE Thrown(outcome.error)

\* What getAICompletions settles with, given the outcome of its try block:
\* the mapped suggestions, or [] from its catch block.
caughtAI(outcome) ==
  IF outcome.ok
  THEN Returned([i \in DOMAIN outcome.value.suggestions |->
                   itemOf(outcome.value.suggestions[i], i - 1, outcome.value)])
  ELSE Returned(<<>>)

\* getCompletionItems(opt), up to the first await.  Without the feature, a
\* client or options it returns no items at once; otherwise getAICompletions
\* runs up to its await of aiClient.getCompletions(request), or fails before
\* it on a document it cannot read.
getCompletionItems(opt) ==
  /\ activated
  /\ Len(comps) < MaxCompletions
  /\ LET aiEnabled == Truthy(get(settings, "ai.enabled", Bool(FALSE)))
         document == Prop(opt, "document")
         request == Request(Prop(opt, "input"),
                            getContextFromDocument(document, Prop(opt, "position")),
                            Prop(document, "languageId"), Num(3))
         mode == IF aiClient.class = "ClaudeClient" THEN "messages" ELSE "chat"
     IN comps' = Append(comps,
          IF ~(aiEnabled /\ aiClient # Null /\ Truthy(opt))
          THEN [pc |-> "done", asked |-> FALSE, items |-> <<>>]
          ELSE IF ~CanRead(document)
          THEN [pc |-> "awaitAI", asked |-> TRUE, called |-> FALSE,
                outcome |-> Thrown(CannotRead), ai |-> caughtAI(Thrown(CannotRead))]
          ELSE [pc |-> "awaitClient", asked |-> TRUE, cl |-> aiClient,
                mode |-> mode, request |-> request,
                sent |-> fetchRequest(aiClient, mode, request, Len(comps) + 1)])
  /\ UNCHANGED <<settings, aiClient, cmds, lastInit, clientVars, pureVars>>

\* aiClient.getCompletions settles, whatever the remote end answers, and
\* getAICompletions with it.
clientSettles(i) ==
  /\ i \in DOMAIN comps
  /\ comps[i].pc = "awaitClient"
  /\ \E reply \in EditorReplies(comps[i].sent, comps[i].mode) :
       LET outcome == callOutcome(comps[i].cl, comps[i].mode, comps[i].request, reply)
       IN comps' = [comps EXCEPT ![i] =
            [pc |-> "awaitAI", asked |-> TRUE, called |-> TRUE,
             outcome |-> outcome, ai |-> caughtAI(outcome)]]
  /\ UNCHANGED <<settings, aiClient, cmds, lastInit, clientVars, pureVars>>

\* getCompletionItems after `await getAICompletions(opt)`: the items are
\* pushed, or its own catch block leaves the list empty.  Of a completed
\* request the state keeps the items, whether the client was called and the
\* name of the error that ended the try block of getAICompletions, if any.
aiCompletionsSettled(i) ==
  /\ i \in DOMAIN comps
  /\ comps[i].pc = "awaitAI"
  /\ comps' = [comps EXCEPT ![i] =
       [pc |-> "done", asked |-> TRUE, called |-> comps[i].called,
        failed |-> IF comps[i].outcome.ok THEN "no" ELSE comps[i].outcome.error.name,
        items |-> IF comps[i].ai.ok THEN comps[i].ai.value ELSE <<>>]]
  /\ UNCHANGED <<settings, aiClient, cmds, lastInit, clientVars, pureVars>>

NextEditor ==
  \/ activate
  \/ toggleAI
  \/ configureAI
  \/ \E i \in 1..MaxCommands : updateLands(i)
  \/ \E i \in 1..MaxCommands : toggleUpdated(i)
  \/ \E i \in 1..MaxCommands, apiKey \in InputKeys : inputEntered(i, apiKey)
  \/ \E i \in 1..MaxCommands : keyUpdated(i)
  \/ \E i \in 1..MaxCommands : enabledUpdated(i)
  \/ \E opt \in Opts : getCompletionItems(opt)
  \/ \E i \in 1..MaxCompletions : clientSettles(i)
  \/ \E i \in 1..MaxCompletions : aiCompletionsSettled(i)

SpecEditor == InitEditor /\ [][NextEditor]_vars

-----------------------------------------------------------------------------
(* Properties *)

\* The tag of the client's provider, as an error's provider field holds it
providerTag(cl) == Str(<<providerOf(cl)>>)

\* The wire requests issued for call c
requestsOf(c) == {k \in DOMAIN wire : wire[k].call = c}

\* The request fails request validation: empty or blank prompt, or a
\* supplied maxSuggestions <= 0.
Invalid(request) == validateRequest(request, Undef).name = "AIClientError"

\* The apiKey is absent, empty or blank.
KeyMissing(config) ==
  config.apiKey = Undef \/ (config.apiKey.t = "string" /\ trim(config.apiKey.v) = <<>>)

\* C1: a getCompletions call whose request is invalid (empty or blank prompt,
\* or maxSuggestions <= 0) has failed with an error and no request for it has
\* been handed to the network.
C1_InvalidRequestNeverSent ==
  \A c \in DOMAIN calls :
    (calls[c].mode # "legacy" /\ Invalid(calls[c].request))
      => (calls[c].pc = "threw" /\ requestsOf(c) = {})

\* C2: construction yields a client exactly when the supplied apiKey is
\* present and not blank; with a missing key it fails and yields no client.
C2_ApiKeyRequired ==
  created # Null => (client # Null <=> ~KeyMissing(created.config))

\* C3: createAIClient with a provider tag other than 'openai' and 'claude'
\* constructs no client.
C3_UnknownProviderRejected ==
  (created # Null /\ created.entry = "src"
     /\ created.provider \notin {"openai", "claude"})
    => client = Null

\* C4: a call with a valid request whose wire response had a non-2xx status S
\* has failed with an AIClientError whose statusCode is S and whose provider
\* is the client's, and nothing was parsed.
C4_StatusCarriedInClientError ==
  \A c \in DOMAIN calls :
    (~Invalid(calls[c].request)
       /\ calls[c].response.status > 0 /\ ~IsOk(calls[c].response))
      => /\ calls[c].pc = "threw"
         /\ calls[c].result = Undef
         /\ calls[c].error.name = "AIClientError"
         /\ calls[c].error.statusCode = Num(calls[c].response.status)
         /\ calls[c].error.provider = providerTag(client)

\* C5: every failure of a call (here: of a call with a valid request, failing
\* on transport, status or body) reaches the caller as an AIClientError tagged
\* with the client's provider and holding the original error as its cause.
C5_FailuresWrapped ==
  \A c \in DOMAIN calls :
    (~Invalid(calls[c].request) /\ calls[c].pc = "threw")
      => /\ calls[c].error.name = "AIClientError"
         /\ calls[c].error.provider = providerTag(client)
         /\ calls[c].error.originalError = calls[c].raised

\* C6: a call whose request passes validation has exactly one request on the
\* wire, from its start on; it is waiting on that request or has completed,
\* with a response or with a failure and never both, and a completed call's
\* request has been answered (no second request after a failure).
C6_OneRequestPerCall ==
  \A c \in DOMAIN calls :
    ~Invalid(calls[c].request)
      => /\ Cardinality(requestsOf(c)) = 1
         /\ (calls[c].pc = "returned")
              <=> (calls[c].result # Undef /\ calls[c].error = NoError)
         /\ (calls[c].pc = "threw")
              <=> (calls[c].error # NoError /\ calls[c].result = Undef)
         /\ calls[c].pc \in {"returned", "threw"}
              => \A k \in requestsOf(c) : wire[k].reply # NoReply
         /\ calls[c].pc = "awaitFetch"
              => \A k \in requestsOf(c) : wire[k].reply = NoReply

\* C6 witness: a call with a valid request failed on a 500 response and a
\* legacy call failed on a lost connection, each with its one request.
C6_Witness ==
  /\ \E c \in DOMAIN calls :
       /\ ~Invalid(calls[c].request)
       /\ calls[c].pc = "threw"
       /\ calls[c].response.status = 500
       /\ Cardinality(requestsOf(c)) = 1
  /\ \E c \in DOMAIN calls :
       /\ ~Invalid(calls[c].request)
       /\ calls[c].mode = "legacy"
       /\ calls[c].pc = "threw"
       /\ calls[c].raised.message = FetchFailed
       /\ Cardinality(requestsOf(c)) = 1

\* C7: a call that returned holds the suggestions parsed, under its own
\* maxSuggestions, from the reply given to its own request, which carried the
\* prompt built from its own request; the held config is the one of
\* construction.
C7_NoCrossContamination ==
  /\ client # Null => client.config = created.held
  /\ \A c \in DOMAIN calls :
       calls[c].pc = "returned"
         => \A k \in requestsOf(c) :
              /\ wire[k].body.prompt = buildPrompt(calls[c].request)
              /\ parseResponse(client, calls[c].mode, wire[k].reply.body,
                               calls[c].request) = Returned(calls[c].result)
              /\ (client.class = "ClaudeClient"
                    /\ maxSuggestionsOf(calls[c].request) > 0)
                   => Len(calls[c].result.suggestions)
                        <= maxSuggestionsOf(calls[c].request)

\* C7 witness: two calls with different requests are in flight, the second
\* has returned its own suggestions while the first has its response but has
\* not parsed it yet, and the two replies differ.
C7_Witness ==
  /\ Len(calls) >= 2
  /\ calls[1].request # calls[2].request
  /\ calls[1].pc = "awaitJson"
  /\ calls[2].pc = "returned"
  /\ calls[2].result.suggestions # <<>>
  /\ calls[1].response.body # calls[2].response.body
  /\ calls[1].response.body \notin {NotJson, Obj(<<>>)}

\* The supplied temperature lies in [0, 1], endpoints included.
TemperatureInRange(config) ==
  /\ config.temperature # Undef
  /\ config.temperature.v >= TemperatureMin
  /\ config.temperature.v <= TemperatureMax

\* C8: with a supplied temperature in [0, 1], in a config that passes config
\* validation, construction succeeds, and the held config and every wire body
\* carry the supplied value unchanged.
C8_TemperaturePreserved ==
  (created # Null /\ TemperatureInRange(created.config)
     /\ validateConfig(created.config, Undef) = NoError)
    => /\ client # Null
       /\ client.config.temperature = created.config.temperature
       /\ \A k \in DOMAIN wire :
            wire[k].body.temperature = created.config.temperature

\* C9: with a supplied temperature below 0 or above 1 construction fails and
\* no client is produced.
C9_TemperatureOutOfRangeRejected ==
  (created # Null /\ created.config.temperature # Undef
     /\ ~TemperatureInRange(created.config))
    => client = Null

\* C10: a constructed client holds a config with every field present, a
\* non-empty apiKey, maxTokens > 0 and a temperature in [0, 1] (the held
\* config passes config validation), and it is the config of construction.
C10_HeldConfigValid ==
  client # Null
    => /\ \A f \in DOMAIN client.config : client.config[f] # Undef
       /\ ~KeyMissing(client.config)
       /\ client.config.maxTokens.v > 0
       /\ TemperatureInRange(client.config)
       /\ validateConfig(client.config, Undef) = NoError
       /\ client.config = created.held

\* C11: the prompt every adapter builds is the present sections among
\* "Language: <language>", "Context:\n<context>" and "Complete the following
\* code:\n<prompt>", in that order, adjacent sections separated by exactly one
\* blank line (the text BaseAIClient.buildPrompt defines); an absent or empty
\* context gives no Context block.
C11_PromptSections ==
  (pin # Null /\ pin.fn = "buildPrompt" /\ pout # Null) =>
     pout = baseBuildPrompt(pin.request)

\* choice.message.content (chat) or choice.text (legacy) of an entry
bodyOf(choice, legacy) ==
  IF legacy THEN Prop(choice, "text") ELSE Prop(Prop(choice, "message"), "content")

\* The suggestions the choices stand for: one per choice whose body is
\* non-empty after trimming, with the confidence its finish_reason gives.
RECURSIVE suggestionsOfChoices(_, _)
suggestionsOfChoices(choices, legacy) ==
  IF choices = <<>> THEN <<>>
  ELSE LET body == bodyOf(Head(choices), legacy)
           reason == Prop(Head(choices), "finish_reason")
       IN (IF body.t = "string" /\ trim(body.v) # <<>>
           THEN <<Suggestion(trim(body.v),
                             IF reason = Str(<<"stop">>) THEN Num(90)
                             ELSE IF reason = Str(<<"length">>) THEN Num(70)
                             ELSE Num(50))>>
           ELSE <<>>)
          \o suggestionsOfChoices(Tail(choices), legacy)

\* C12: OpenAI parsing, chat and legacy alike, returns exactly one suggestion
\* per choice whose body is non-empty after trimming, in the order of the
\* choices, each of type 'completion' with confidence 0.9 for finish_reason
\* 'stop', 0.7 for 'length' and 0.5 otherwise.
C12_OpenAISuggestions ==
  (pin # Null /\ pin.fn = "parseResponse" /\ pin.cl.class = "OpenAIClient"
   /\ pout # Null /\ pout.ok) =>
     pout.value.suggestions =
       suggestionsOfChoices(Elements(Prop(pin.data, "choices")), pin.mode = "legacy")

\* The content blocks of type 'text' of a Claude response, in order
RECURSIVE textBlocks(_)
textBlocks(blocks) ==
  IF blocks = <<>> THEN <<>>
  ELSE (IF Prop(Head(blocks), "type") = Str(<<"text">>) THEN <<Head(blocks)>> ELSE <<>>)
       \o textBlocks(Tail(blocks))

\* The non-empty lines of a text, each trimmed
linesOf(txt) ==
  LET lines == nonBlank(split(txt, <<>>))
  IN [i \in 1..Len(lines) |-> trim(lines[i])]

\* The cap a request asks for: its maxSuggestions, 3 when it gives none
capOf(request) ==
  IF request.maxSuggestions = Undef THEN DefaultMaxSuggestions
  ELSE request.maxSuggestions.v

\* The first text block of the parsed response holds at least one non-empty line.
hasLines(data) ==
  /\ textBlocks(Elements(Prop(data, "content"))) # <<>>
  /\ Prop(textBlocks(Elements(Prop(data, "content")))[1], "text").t = "string"
  /\ linesOf(Prop(textBlocks(Elements(Prop(data, "content")))[1], "text").v) # <<>>

\* C13: Claude parsing takes the suggestions only from the first text block:
\* its non-empty lines in order, at most maxSuggestions of them (3 when the
\* request gives none), the i-th (from 0) with confidence 0.9 - 0.1*i; the
\* lines beyond maxSuggestions are dropped.
C13_ClaudeLines ==
  (pin # Null /\ pin.fn = "parseResponse" /\ pin.cl.class = "ClaudeClient"
   /\ pout # Null /\ pout.ok /\ hasLines(pin.data)) =>
     LET lines == linesOf(Prop(textBlocks(Elements(Prop(pin.data, "content")))[1], "text").v)
         n == IF capOf(pin.request) < 0 THEN 0 ELSE Min(Len(lines), capOf(pin.request))
     IN pout.value.suggestions =
          [i \in 1..n |-> Suggestion(lines[i], Num(90 - 10 * (i - 1)))]

\* C14: Claude fallback.  When the response has a text block whose splitting
\* yields no suggestion, parsing returns exactly one suggestion: the entire
\* trimmed text of that block, confidence 0.9.  A text block that is a single
\* line without newline gives exactly one suggestion of confidence 0.9.  A
\* response without text block gives no suggestion.
C14_ClaudeFallback ==
  (pin # Null /\ pin.fn = "parseResponse" /\ pin.cl.class = "ClaudeClient"
   /\ pout # Null /\ pout.ok) =>
     LET blocks == textBlocks(Elements(Prop(pin.data, "content")))
         first == Prop(blocks[1], "text")
     IN /\ blocks = <<>> => pout.value.suggestions = <<>>
        /\ (blocks # <<>> /\ first.t = "string" /\ linesOf(first.v) = <<>>) =>
              pout.value.suggestions = <<Suggestion(trim(first.v), Num(90))>>
        /\ (blocks # <<>> /\ first.t = "string" /\ first.v # <<>>
            /\ \A i \in DOMAIN first.v : first.v[i] # NL) =>
              /\ Len(pout.value.suggestions) = 1
              /\ pout.value.suggestions[1].confidence = Num(90)

\* The request passes validateRequest: a non-blank prompt, maxSuggestions
\* absent or positive.
Validated(request) == validateRequest(request, Undef) = NoError

\* C15: for every request that passes validation (any maxSuggestions > 0)
\* and every wire response, every suggestion an adapter returns has a
\* confidence inside [0, 1] (an OpenAI suggestion may carry none).
C15_ConfidenceInRange ==
  (pin # Null /\ pin.fn = "parseResponse" /\ Validated(pin.request)
   /\ pout # Null /\ pout.ok) =>
     \A i \in DOMAIN pout.value.suggestions :
        \/ pout.value.suggestions[i].confidence = Undef
        \/ /\ pout.value.suggestions[i].confidence.t = "number"
           /\ pout.value.suggestions[i].confidence.v >= 0
           /\ pout.value.suggestions[i].confidence.v <= 100

\* No entry of the list has a usable body: a string that is non-empty after
\* trimming.
RECURSIVE noUsableText(_)
noUsableText(blocks) ==
  \/ blocks = <<>>
  \/ /\ ~(Prop(Head(blocks), "text").t = "string"
          /\ trim(Prop(Head(blocks), "text").v) # <<>>)
     /\ noUsableText(Tail(blocks))

\* The JSON body lacks the expected shape: choices / content missing, not a
\* list, or a list without any entry that has a usable body.
Malformed(data, mode) ==
  IF mode = "messages" THEN noUsableText(Elements(Prop(data, "content")))
  ELSE suggestionsOfChoices(Elements(Prop(data, "choices")), mode = "legacy") = <<>>

\* C16: a 2xx response whose body lacks the expected shape makes the call
\* return a response with an empty, non-null suggestions list; the call does
\* not fail.
C16_MalformedBodyGivesEmptyList ==
  (pin # Null /\ pin.fn = "parseResponse" /\ Validated(pin.request)
   /\ pout # Null /\ Malformed(pin.data, pin.mode)) =>
     /\ pout.ok
     /\ pout.value.suggestions = <<>>

\* A count of a provider's usage record, a missing one taken as 0
countOf(usage, k) == IF Prop(usage, k) = Undef THEN 0 ELSE Prop(usage, k).v

\* C17: a Claude response that carries usage gives promptTokens =
\* input_tokens, completionTokens = output_tokens (a missing count is 0) and
\* totalTokens = their sum; every usage record any adapter returns has
\* totalTokens = promptTokens + completionTokens, also when the provider
\* omitted the total; a response without usage gives no usage.
C17_UsageTotals ==
  (pin # Null /\ pin.fn = "parseResponse" /\ pout # Null /\ pout.ok) =>
     LET given == Prop(pin.data, "usage")
         usage == pout.value.usage
     IN /\ (pin.cl.class = "ClaudeClient" /\ given # Undef) =>
              usage = Obj([promptTokens |-> Num(countOf(given, "input_tokens")),
                           completionTokens |-> Num(countOf(given, "output_tokens")),
                           totalTokens |-> Num(countOf(given, "input_tokens")
                                               + countOf(given, "output_tokens"))])
        /\ usage # Undef =>
              /\ Prop(usage, "promptTokens").t = "number"
              /\ Prop(usage, "completionTokens").t = "number"
              /\ Prop(usage, "totalTokens") =
                   Num(Prop(usage, "promptTokens").v + Prop(usage, "completionTokens").v)
        /\ given = Undef => usage = Undef

\* C18: any failure inside the AI completion-fetch path (request failure,
\* non-2xx, parse failure, bad document) gives an empty AI suggestion list:
\* getAICompletions settles with [], and getCompletionItems completes with a
\* result that holds no AI item; no error reaches the editor.
C18_FailuresGiveNoItems ==
  \A i \in DOMAIN comps :
     /\ comps[i].pc \in {"awaitClient", "awaitAI", "done"}
     /\ (comps[i].pc = "awaitAI" /\ ~comps[i].outcome.ok) =>
           comps[i].ai = Returned(<<>>)
     /\ (comps[i].pc = "done" /\ comps[i].asked /\ comps[i].failed # "no") =>
           comps[i].items = <<>>

\* A completion request whose client call failed with a TypeError (no
\* connection, or a body the parser cannot read) has completed.
C18_Witness ==
  \E i \in DOMAIN comps :
     /\ comps[i].pc = "done" /\ comps[i].asked /\ comps[i].called
     /\ comps[i].failed = "TypeError"
     /\ comps[i].items = <<>>

\* The apiKey setting of the selected provider
selectedKey(s) ==
  IF get(s, "provider", Str(<<"openai">>)) = Str(<<"claude">>)
  THEN s["claude.apiKey"] ELSE s["openai.apiKey"]

finishes(i) == i \in DOMAIN cmds /\ cmds[i].pc # "done" /\ cmds'[i].pc = "done"

\* A toggleAI that disabled the feature has finished and the feature has not
\* been enabled since: the setting is off and no client is held.
featureOff ==
  /\ \E i \in DOMAIN cmds :
       cmds[i].cmd = "toggleAI" /\ cmds[i].pc = "done" /\ cmds[i].enabled
  /\ ~Truthy(get(settings, "ai.enabled", Bool(FALSE)))
  /\ aiClient = Null

\* C20: when a toggleAI that disables the feature finishes, the held client is
\* null; from then until the feature is enabled again no AI suggestions are
\* returned and the client stays null; when configureAI finishes with a new
\* key, the held client is the one built from the new settings.
C20_ClientLifecycle ==
  [][/\ \A i \in DOMAIN cmds :
          (finishes(i) /\ cmds[i].cmd = "toggleAI" /\ cmds[i].enabled) =>
             aiClient' = Null
     /\ featureOff =>
          /\ \A c \in DOMAIN comps :
               (comps[c].pc # "done" /\ comps'[c].pc = "done") => comps'[c].items = <<>>
          /\ Len(comps') > Len(comps) =>
               /\ comps'[Len(comps')].pc = "done"
               /\ comps'[Len(comps')].items = <<>>
          /\ aiClient' # Null =>
               \E i \in DOMAIN cmds :
                  finishes(i) /\ (cmds[i].cmd = "configureAI" \/ ~cmds[i].enabled)
     /\ \A i \in DOMAIN cmds :
          (finishes(i) /\ cmds[i].cmd = "configureAI" /\ Truthy(cmds'[i].apiKey)) =>
             /\ aiClient' = initialized(settings')
             /\ settings'["openai.apiKey"] = cmds'[i].apiKey
    ]_vars

\* Every handler that was started has finished.
allFinished == \A i \in DOMAIN cmds : cmds[i].pc = "done"

\* C21: under any interleaving of toggleAI and configureAI at their await
\* points, once all commands have finished the state is consistent: if
\* ai.enabled is true and an apiKey is configured for the selected provider,
\* the held client is non-null.
C21_ConsistentWhenQuiet ==
  (activated /\ allFinished
   /\ Truthy(get(settings, "ai.enabled", Bool(FALSE)))
   /\ Truthy(selectedKey(settings))) =>
     aiClient # Null

\* The errors a BaseAIClient has raised so far: the one its constructor threw
\* and the one its getCompletions threw.
raisedByBase ==
  IF pin = Null \/ pin.fn # "BaseAIClient" \/ pout = Null THEN {}
  ELSE (IF ~pout.this.ok THEN {pout.this.error} ELSE {})
       \cup (IF pout.call # Null /\ ~pout.call.ok THEN {pout.call.error} ELSE {})

\* C22: every AIClientError raised by the client, including the configuration
\* errors raised while the client is being constructed, carries in its
\* provider field the tag of the provider the client is (being) built for;
\* the field is never unset.
C22_ProviderAlwaysTagged ==
  \A e \in raisedByBase :
    e.name = "AIClientError" => e.provider = Str(<<pin.provider>>)

====
